---- MODULE Spec2Model ----
(***************************************************************************)
(* Discount-calculation pipeline of ECommerceCheckout: the catalog store,  *)
(* the discount rule tables, the four discount strategies, the two-phase   *)
(* inventory reservation and the orchestrator (DiscountService).           *)
(*                                                                         *)
(* Amounts are Decimal in the source.  Here an amount is an integer number *)
(* of ticks, Scale ticks to one currency unit, and a percentage is its     *)
(* nominal numerator over PctDen (Decimal(0.1) is 10/100).                 *)
(*                                                                         *)
(* A call is a coroutine.  Its frame (arguments, program counter, locals)  *)
(* is call[r]; one action is one stretch of code between two awaits of a   *)
(* repository call.                                                        *)
(***************************************************************************)
EXTENDS Integers, Sequences, FiniteSets, TLC

VARIABLES catalog, strategies, call

vars == <<catalog, strategies, call>>

(***************************************************************************)
(* Bounds of the model.                                                    *)
(***************************************************************************)
MaxLines == 2          \* longest cart
MaxQty == 2            \* largest quantity of one cart line
InitStock == 3         \* stock of every product after setup
MaxStrategies == 2     \* longest chain built by add_discount_strategy

(***************************************************************************)
(* Values.                                                                 *)
(***************************************************************************)
Scale == 8000
PctDen == 100
Money(x) == x * Scale

PriceNone == -1        \* Optional[Decimal] = None
NoCode == "<None>"     \* code: Optional[str] = None
EmptyMap == [x \in {} |-> 0]

Tiers == {"PREMIUM", "REGULAR", "BUDGET"}
Kinds == {"Category", "Brand", "Payment", "Coupon"}

NoPayment == [present |-> FALSE, method |-> "NONE", card_type |-> "NONE"]
Card(t) == [present |-> TRUE, method |-> "CARD", card_type |-> t]
Upi == [present |-> TRUE, method |-> "UPI", card_type |-> "NONE"]
\* PaymentInfo(method=UPI, card_type=t): a card type left on a non-card payment.
UpiCard(t) == [present |-> TRUE, method |-> "UPI", card_type |-> t]

(***************************************************************************)
(* DiscountRepository: the rule tables, one row per customer tier.         *)
(***************************************************************************)
Brands == {"PUMA", "ADIDAS", "NIKE"}
Categories == {"SHOES", "T-SHIRTS", "PANTS"}
CardTypes == {"CREDIT", "DEBIT"}

brand_discounts ==
    [t \in Tiers |-> [b \in Brands |-> IF t = "PREMIUM" THEN 10 ELSE 5]]

category_discounts == [t \in Tiers |-> [c \in Categories |-> 5]]

card_type_discounts == [t \in Tiers |-> [c \in CardTypes |-> 5]]

\* Keyed by tier; each value is that tier's row (a mapping), not a percentage.
coupon_discounts ==
    [t \in Tiers |->
        IF t = "PREMIUM"
        THEN [c \in {"PUMA10", "ADIDAS10", "NIKE10"} |-> 10]
        ELSE [c \in {"PUMA", "ADIDAS", "NIKE"} |-> 5]]

(***************************************************************************)
(* Strategies.  product is the private copy being priced: the fields read  *)
(* are brand, category, current_price and min_price_possible.  The result  *)
(* of apply_discounts is the returned pair and the copy's new price;       *)
(* raised names the exception when the call does not return.               *)
(***************************************************************************)
StrategyName(kind) == kind \o "Discount"

Max(a, b) == IF a >= b THEN a ELSE b

Times(price, percentage) == (price * percentage) \div PctDen

NotApplied(product) ==
    [applied |-> FALSE, amount |-> 0, price |-> product.current_price,
     raised |-> "none"]

Raised(product, e) ==
    [applied |-> FALSE, amount |-> 0, price |-> product.current_price,
     raised |-> e]

\* The clamp left out: the reduced price is kept even under the floor.
DeductNoFloor(product, percentage) ==
    LET discount_amount == Times(product.current_price, percentage)
    IN  [applied |-> TRUE, amount |-> discount_amount,
         price |-> product.current_price - discount_amount,
         raised |-> "none"]

\* The percentage taken from the base price instead of the running price.
DeductFromBase(product, percentage) ==
    LET discount_amount == Times(product.base_price, percentage)
        reduced == product.current_price - Times(product.base_price, percentage)
    IN  [applied |-> TRUE, amount |-> discount_amount,
         price |-> Max(reduced, product.min_price_possible),
         raised |-> "none"]

\* The shared tail of the four apply_discounts: the percentage of the running
\* price is the amount returned, the new running price is clamped to the floor.
Deduct(product, percentage) ==
    LET discount_amount == Times(product.current_price, percentage)
        reduced == product.current_price - Times(product.current_price, percentage)
    IN  [applied |-> TRUE, amount |-> discount_amount,
         price |-> Max(reduced, product.min_price_possible),
         raised |-> "none"]

BrandValidate(product, customer, payment_info, code) ==
    product.brand \in DOMAIN brand_discounts[customer]

CategoryValidate(product, customer, payment_info, code) ==
    product.category \in DOMAIN category_discounts[customer]

\* The method test left out: any payment with a listed card type passes.
PaymentValidateAnyMethod(product, customer, payment_info, code) ==
    IF ~payment_info.present THEN FALSE
    ELSE payment_info.card_type \in DOMAIN card_type_discounts[customer]

PaymentValidate(product, customer, payment_info, code) ==
    IF ~payment_info.present THEN FALSE
    ELSE IF payment_info.method # "CARD" THEN FALSE
    ELSE payment_info.card_type \in DOMAIN card_type_discounts[customer]

CouponValidate(product, customer, payment_info, code) ==
    IF code = NoCode \/ code = "" THEN FALSE
    ELSE code \in DOMAIN coupon_discounts

\* The percentage read from the PREMIUM row whatever the customer's tier.
BrandApplyPremiumRow(product, customer, payment_info, code) ==
    IF ~BrandValidate(product, customer, payment_info, NoCode)
    THEN NotApplied(product)
    ELSE Deduct(product, brand_discounts["PREMIUM"][product.brand])

BrandApply(product, customer, payment_info, code) ==
    IF ~BrandValidate(product, customer, payment_info, NoCode)
    THEN NotApplied(product)
    ELSE IF product.brand \in DOMAIN brand_discounts[customer]
    THEN Deduct(product, brand_discounts[customer][product.brand])
    ELSE NotApplied(product)

CategoryApply(product, customer, payment_info, code) ==
    IF ~CategoryValidate(product, customer, payment_info, NoCode)
    THEN NotApplied(product)
    ELSE IF product.category \in DOMAIN category_discounts[customer]
    THEN Deduct(product, category_discounts[customer][product.category])
    ELSE NotApplied(product)

PaymentApply(product, customer, payment_info, code) ==
    IF ~PaymentValidate(product, customer, payment_info, NoCode)
    THEN NotApplied(product)
    ELSE IF payment_info.card_type \in DOMAIN card_type_discounts[customer]
    THEN Deduct(product, card_type_discounts[customer][payment_info.card_type])
    ELSE NotApplied(product)

\* coupon_discounts[code] is a tier's row: Decimal * dict raises TypeError.
CouponApply(product, customer, payment_info, code) ==
    IF ~CouponValidate(product, customer, payment_info, code)
    THEN NotApplied(product)
    ELSE Raised(product, "TypeError")

validate_discount_code(kind, product, customer, payment_info, code) ==
    CASE kind = "Brand" -> BrandValidate(product, customer, payment_info, code)
      [] kind = "Category" -> CategoryValidate(product, customer, payment_info, code)
      [] kind = "Payment" -> PaymentValidate(product, customer, payment_info, code)
      [] kind = "Coupon" -> CouponValidate(product, customer, payment_info, code)

apply_discounts(kind, product, customer, payment_info, code) ==
    CASE kind = "Brand" -> BrandApply(product, customer, payment_info, code)
      [] kind = "Category" -> CategoryApply(product, customer, payment_info, code)
      [] kind = "Payment" -> PaymentApply(product, customer, payment_info, code)
      [] kind = "Coupon" -> CouponApply(product, customer, payment_info, code)

(***************************************************************************)
(* The strategy chain on one cart line (service.py, the inner loop).  acc  *)
(* carries the copy's running price, the ledger, and the trail: one entry  *)
(* per strategy call, in call order.                                       *)
(***************************************************************************)
Put(f, k, v) == [x \in (DOMAIN f) \cup {k} |-> IF x = k THEN v ELSE f[x]]

\* The product's row replaced by the new entry instead of extended by it.
TrackReplacesRow(ledger, id, name, amount) ==
    Put(ledger, id, Put(EmptyMap, name, amount))

Track(ledger, id, name, amount) ==
    Put(ledger, id, Put(IF id \in DOMAIN ledger THEN ledger[id] ELSE EmptyMap,
                        name, amount))

RECURSIVE RunChain(_, _, _, _, _, _, _, _)
RunChain(chain, k, line, copy, customer, payment_info, code, acc) ==
    IF k > Len(chain) THEN acc
    ELSE LET product == [copy EXCEPT !.current_price = acc.price]
             r == apply_discounts(chain[k], product, customer, payment_info, code)
             step == [line |-> line, kind |-> chain[k],
                      eligible |-> validate_discount_code(chain[k], product,
                                       customer, payment_info, code),
                      applied |-> r.applied, amount |-> r.amount,
                      raised |-> r.raised,
                      start |-> copy.current_price,
                      floor |-> copy.min_price_possible,
                      base |-> copy.base_price,
                      before |-> acc.price, after |-> r.price]
         IN  IF r.raised # "none"
             THEN [acc EXCEPT !.raised = r.raised,
                              !.trail = Append(acc.trail, step)]
             ELSE RunChain(chain, k + 1, line, copy, customer, payment_info, code,
                     [price |-> r.price,
                      ledger |-> IF r.applied
                                 THEN Track(acc.ledger, copy.id,
                                            StrategyName(chain[k]), r.amount)
                                 ELSE acc.ledger,
                      trail |-> Append(acc.trail, step),
                      raised |-> "none"])

(***************************************************************************)
(* Call frames.                                                            *)
(***************************************************************************)
Reqs == {1}

Idle ==
    [pc |-> "idle", op |-> "none", cart |-> <<>>, customer |-> "PREMIUM",
     payment_info |-> NoPayment, code |-> NoCode, reserve_inventory |-> FALSE,
     i |-> 0, original_price |-> 0, final_price |-> 0,
     applied_discounts |-> EmptyMap, trail |-> <<>>, units |-> <<>>,
     result |-> "none",
     named |-> "", at |-> "", pre |-> EmptyMap,
     reserved |-> FALSE, released |-> FALSE]

\* The call ends with outcome res; at keeps the place it ended from.
Done(f, res) == [f EXCEPT !.pc = "done", !.result = res, !.at = f.pc]

\* release_items entered with the pending outcome res.
EnterRelease(f, res) ==
    IF Len(f.cart) = 0
    THEN [Done(f, res) EXCEPT !.released = TRUE]
    ELSE [f EXCEPT !.pc = "release", !.i = 1, !.result = res, !.at = f.pc]

FailNoRelease(f, e) == Done(f, e)

\* The handler releases whether or not the call was reserving.
FailAlwaysRelease(f, e) == EnterRelease(f, e)

\* except Exception (service.py 313-318): release what was reserved, re-raise.
Fail(f, e) ==
    IF f.reserve_inventory THEN EnterRelease(f, e) ELSE Done(f, e)

EnterLines(f) ==
    IF Len(f.cart) = 0 THEN Done(f, "ok")
    ELSE [f EXCEPT !.pc = "line", !.i = 1]

AfterReserve(f) ==
    IF f.op = "reserve" THEN Done(f, "ok") ELSE [f EXCEPT !.pc = "original"]

EnterReserve(f) ==
    IF Len(f.cart) = 0 THEN AfterReserve([f EXCEPT !.reserved = TRUE])
    ELSE [f EXCEPT !.pc = "check", !.i = 1]

AfterValidate(f) ==
    IF f.reserve_inventory THEN EnterReserve(f)
    ELSE [f EXCEPT !.pc = "original"]

EnterValidate(f) ==
    IF Len(f.cart) = 0 THEN AfterValidate(f)
    ELSE [f EXCEPT !.pc = "validate", !.i = 1]

EnterAvailable(f) ==
    IF Len(f.cart) = 0 THEN [f EXCEPT !.pc = "scan"]
    ELSE [f EXCEPT !.pc = "available", !.i = 1]

Last(f) == f.i = Len(f.cart)

Line(f) == f.cart[f.i]

(***************************************************************************)
(* Entry of a call: the frame is built and runs to its first await.        *)
(***************************************************************************)
Begin(o, c, t, p, cd, rs) ==
    LET f == [Idle EXCEPT !.op = o, !.cart = c, !.customer = t,
                          !.payment_info = p, !.code = cd,
                          !.reserve_inventory = rs, !.pre = catalog]
    IN  CASE o = "calculate" -> EnterValidate(f)
          [] o = "reserve" -> EnterReserve(f)
          [] o = "release" -> EnterRelease(f, "ok")
          [] o = "validate_code" -> EnterAvailable(f)

Start(r, o, c, t, p, cd, rs) ==
    /\ call[r].pc = "idle"
    /\ call' = [call EXCEPT ![r] = Begin(o, c, t, p, cd, rs)]
    /\ UNCHANGED <<catalog, strategies>>

\* The caller has the outcome; the frame is dropped.
Return(r) ==
    /\ call[r].pc = "done"
    /\ call' = [call EXCEPT ![r] = Idle]
    /\ UNCHANGED <<catalog, strategies>>

(***************************************************************************)
(* DiscountService._validate_inventory_availability, one cart line.        *)
(***************************************************************************)
\* The quantity comparison left out: only the product's existence is checked.
ValidateLineNoStock(f) ==
    LET id == Line(f).product.id
    IN  IF id \notin DOMAIN catalog THEN Done(f, "ProductNotFound")
        ELSE IF Last(f) THEN AfterValidate(f)
        ELSE [f EXCEPT !.i = f.i + 1]

ValidateLine(f) ==
    LET id == Line(f).product.id
    IN  IF id \notin DOMAIN catalog THEN Done(f, "ProductNotFound")
        ELSE IF catalog[id].quantity < Line(f).quantity
        THEN Done(f, "InsufficientInventory")
        ELSE IF Last(f) THEN AfterValidate(f)
        ELSE [f EXCEPT !.i = f.i + 1]

ValidateStep(r) ==
    /\ call[r].pc = "validate"
    /\ call' = [call EXCEPT ![r] = ValidateLine(call[r])]
    /\ UNCHANGED <<catalog, strategies>>

(***************************************************************************)
(* InventoryService.reserve_items: first pass, then second pass.           *)
(***************************************************************************)
\* One unit taken from the line's product whatever the line's quantity.
DecrementOne(cat, line) ==
    IF line.product.id \notin DOMAIN cat THEN cat
    ELSE [cat EXCEPT ![line.product.id].quantity = @ - 1]

Decrement(cat, line) ==
    IF line.product.id \notin DOMAIN cat THEN cat
    ELSE [cat EXCEPT ![line.product.id].quantity = @ - line.quantity]

\* The first pass lets every known line through, whatever the stock.
CheckLineNoStock(f) ==
    LET id == Line(f).product.id
    IN  IF id \notin DOMAIN catalog THEN Done(f, "ProductNotFound")
        ELSE IF Last(f) THEN [f EXCEPT !.pc = "update", !.i = 1]
        ELSE [f EXCEPT !.i = f.i + 1]

CheckLine(f) ==
    LET id == Line(f).product.id
    IN  IF id \notin DOMAIN catalog THEN Done(f, "ProductNotFound")
        ELSE IF catalog[id].quantity < Line(f).quantity
        THEN Done(f, "InsufficientInventory")
        ELSE IF Last(f) THEN [f EXCEPT !.pc = "update", !.i = 1]
        ELSE [f EXCEPT !.i = f.i + 1]

ReserveCheckSinglePass(r) ==
    /\ call[r].pc = "check"
    /\ catalog' = IF CheckLine(call[r]).pc = "done" THEN catalog
                  ELSE Decrement(catalog, Line(call[r]))
    /\ call' = [call EXCEPT ![r] = CheckLine(call[r])]
    /\ UNCHANGED strategies

ReserveCheck(r) ==
    /\ call[r].pc = "check"
    /\ call' = [call EXCEPT ![r] = CheckLine(call[r])]
    /\ UNCHANGED <<catalog, strategies>>

UpdateLine(f) ==
    IF Line(f).product.id \notin DOMAIN catalog THEN Done(f, "ProductNotFound")
    ELSE IF Last(f) THEN AfterReserve([f EXCEPT !.reserved = TRUE])
    ELSE [f EXCEPT !.i = f.i + 1]

ReserveUpdate(r) ==
    /\ call[r].pc = "update"
    /\ catalog' = Decrement(catalog, Line(call[r]))
    /\ call' = [call EXCEPT ![r] = UpdateLine(call[r])]
    /\ UNCHANGED strategies

(***************************************************************************)
(* InventoryService.release_items, one cart line.                          *)
(***************************************************************************)
\* One unit given back whatever the line's quantity.
IncrementOne(cat, line) ==
    IF line.product.id \notin DOMAIN cat THEN cat
    ELSE [cat EXCEPT ![line.product.id].quantity = @ + 1]

Increment(cat, line) ==
    IF line.product.id \notin DOMAIN cat THEN cat
    ELSE [cat EXCEPT ![line.product.id].quantity = @ + line.quantity]

\* No handler for ProductNotFound: a missing product ends the release.
ReleaseLineFailsOnMissing(f) ==
    IF Line(f).product.id \notin DOMAIN catalog THEN Done(f, "ProductNotFound")
    ELSE IF Last(f) THEN [f EXCEPT !.pc = "done", !.released = TRUE]
    ELSE [f EXCEPT !.i = f.i + 1]

ReleaseLine(f) ==
    IF Last(f) THEN [f EXCEPT !.pc = "done", !.released = TRUE]
    ELSE [f EXCEPT !.i = f.i + 1]

ReleaseStep(r) ==
    /\ call[r].pc = "release"
    /\ catalog' = Increment(catalog, Line(call[r]))
    /\ call' = [call EXCEPT ![r] = ReleaseLine(call[r])]
    /\ UNCHANGED strategies

(***************************************************************************)
(* calculate_cart_discounts, inside the try: the original price from the   *)
(* caller's snapshots, then one cart line at a time.                       *)
(***************************************************************************)
\* The sum taken over the catalog's prices instead of the caller's.
RECURSIVE SumOriginalFromCatalog(_, _)
SumOriginalFromCatalog(cart_items, n) ==
    IF n = 0 THEN 0
    ELSE SumOriginalFromCatalog(cart_items, n - 1)
         + (IF cart_items[n].product.id \in DOMAIN catalog
            THEN catalog[cart_items[n].product.id].current_price
            ELSE cart_items[n].product.current_price) * cart_items[n].quantity

RECURSIVE SumOriginal(_, _)
SumOriginal(cart_items, n) ==
    IF n = 0 THEN 0
    ELSE SumOriginal(cart_items, n - 1)
         + cart_items[n].product.current_price * cart_items[n].quantity

Unpriced(cart_items) ==
    \E n \in 1..Len(cart_items) : cart_items[n].product.current_price = PriceNone

Original(f) ==
    IF Unpriced(f.cart) THEN Fail(f, "TypeError")
    ELSE EnterLines([f EXCEPT !.original_price = SumOriginal(f.cart, Len(f.cart))])

OriginalPrice(r) ==
    /\ call[r].pc = "original"
    /\ call' = [call EXCEPT ![r] = Original(call[r])]
    /\ UNCHANGED <<catalog, strategies>>

\* The deep copy priced as the caller sent it: current_price not overwritten.
ProductCopyKeepsPrice(snapshot, db_product) ==
    [id |-> snapshot.id, brand |-> snapshot.brand, category |-> snapshot.category,
     base_price |-> db_product.base_price,
     min_price_possible |-> db_product.min_price_possible,
     current_price |-> snapshot.current_price]

\* product_copy: the caller's snapshot with the catalog's price fields.
ProductCopy(snapshot, db_product) ==
    [id |-> snapshot.id, brand |-> snapshot.brand, category |-> snapshot.category,
     base_price |-> db_product.base_price,
     min_price_possible |-> db_product.min_price_possible,
     current_price |-> db_product.current_price]

PriceOneLine(f) ==
    LET id == Line(f).product.id
    IN  IF id \notin DOMAIN catalog THEN Fail(f, "ProductNotFound")
        ELSE LET copy == ProductCopy(Line(f).product, catalog[id])
                 out == RunChain(strategies, 1, f.i, copy, f.customer,
                                 f.payment_info, f.code,
                                 [price |-> copy.current_price,
                                  ledger |-> f.applied_discounts,
                                  trail |-> f.trail, raised |-> "none"])
                 unit == [id |-> id, quantity |-> Line(f).quantity,
                          start |-> copy.current_price,
                          floor |-> copy.min_price_possible,
                          base |-> copy.base_price,
                          price |-> out.price]
                 g == [f EXCEPT !.applied_discounts = out.ledger,
                                !.trail = out.trail,
                                !.units = Append(@, unit),
                                !.final_price = @ + out.price * Line(f).quantity]
             IN  IF out.raised # "none"
                 THEN Fail([f EXCEPT !.trail = out.trail], out.raised)
                 ELSE IF Last(f) THEN Done(g, "ok")
                 ELSE [g EXCEPT !.i = f.i + 1]

\* The per-line loop run to its end from frame f.
RECURSIVE Priced(_)
Priced(f) == IF f.pc = "line" THEN Priced(PriceOneLine(f)) ELSE f

\* calculate_cart_discounts' pricing of lines 1..n of f's cart under chain:
\* the final price and the ledger.
RECURSIVE QuoteWith(_, _, _)
QuoteWith(chain, f, n) ==
    IF n = 0 THEN [final_price |-> 0, applied_discounts |-> EmptyMap]
    ELSE LET prev == QuoteWith(chain, f, n - 1)
             copy == ProductCopy(f.cart[n].product, catalog[f.cart[n].product.id])
             out == RunChain(chain, 1, n, copy, f.customer, f.payment_info,
                             f.code,
                             [price |-> copy.current_price,
                              ledger |-> prev.applied_discounts,
                              trail |-> <<>>, raised |-> "none"])
         IN  [final_price |-> prev.final_price + out.price * f.cart[n].quantity,
              applied_discounts |-> out.ledger]

\* The strategies run on the stored record instead of on a copy: the price
\* they leave is the catalog's.
PriceLineOnStored(r) ==
    /\ call[r].pc = "line"
    /\ call' = [call EXCEPT ![r] = PriceOneLine(call[r])]
    /\ catalog' =
          LET g == PriceOneLine(call[r])
              id == Line(call[r]).product.id
          IN  IF id \in DOMAIN catalog /\ Len(g.units) > Len(call[r].units)
              THEN [catalog EXCEPT
                       ![id].current_price = g.units[Len(g.units)].price]
              ELSE catalog
    /\ UNCHANGED strategies

PriceLine(r) ==
    /\ call[r].pc = "line"
    /\ call' = [call EXCEPT ![r] = PriceOneLine(call[r])]
    /\ UNCHANGED <<catalog, strategies>>

(***************************************************************************)
(* Cancellation of the task while it is suspended in an await.             *)
(* CancelledError derives from BaseException: "except Exception" does not  *)
(* catch it.                                                               *)
(***************************************************************************)
Suspended == {"validate", "check", "update", "line", "release", "available"}

Cancelled(f) == [Done(f, "CancelledError") EXCEPT !.at = f.pc]

Cancel(r) ==
    /\ call[r].pc \in Suspended
    /\ call' = [call EXCEPT ![r] = Cancelled(call[r])]
    /\ UNCHANGED <<catalog, strategies>>

(***************************************************************************)
(* DiscountService.validate_discount_code: the availability loop (its      *)
(* result is dropped), then every strategy's check on every cart line,     *)
(* called without payment_info.                                            *)
(***************************************************************************)
AvailableLine(f) ==
    LET id == Line(f).product.id
    IN  IF id \notin DOMAIN catalog THEN Done(f, "ProductNotFound")
        ELSE IF ~(catalog[id].quantity >= Line(f).quantity)
        THEN [f EXCEPT !.pc = "scan"]
        ELSE IF Last(f) THEN [f EXCEPT !.pc = "scan"]
        ELSE [f EXCEPT !.i = f.i + 1]

\* The availability pass takes the line's units, as a reservation would.
AvailableStepTakes(r) ==
    /\ call[r].pc = "available"
    /\ call' = [call EXCEPT ![r] = AvailableLine(call[r])]
    /\ catalog' = Decrement(catalog, Line(call[r]))
    /\ UNCHANGED strategies

AvailableStep(r) ==
    /\ call[r].pc = "available"
    /\ call' = [call EXCEPT ![r] = AvailableLine(call[r])]
    /\ UNCHANGED <<catalog, strategies>>

LineValid(chain, product, customer, code) ==
    \A k \in 1..Len(chain) :
        validate_discount_code(chain[k], product, customer, NoPayment, code)

\* The last ineligible line is named instead of the first.
ScanNamesLast(chain, f) ==
    LET bad == {n \in 1..Len(f.cart) :
                    ~LineValid(chain, f.cart[n].product, f.customer, f.code)}
    IN  IF bad = {} THEN Done(f, "true")
        ELSE LET last == CHOOSE n \in bad : \A m \in bad : n >= m
             IN  [Done(f, "InvalidDiscountCode") EXCEPT
                      !.named = f.cart[last].product.id]

Scan(chain, f) ==
    LET bad == {n \in 1..Len(f.cart) :
                    ~LineValid(chain, f.cart[n].product, f.customer, f.code)}
    IN  IF bad = {} THEN Done(f, "true")
        ELSE LET first == CHOOSE n \in bad : \A m \in bad : n <= m
             IN  [Done(f, "InvalidDiscountCode") EXCEPT
                      !.named = f.cart[first].product.id]

ScanStep(r) ==
    /\ call[r].pc = "scan"
    /\ call' = [call EXCEPT ![r] = Scan(strategies, call[r])]
    /\ UNCHANGED <<catalog, strategies>>

(***************************************************************************)
(* Configuration and catalog administration.                               *)
(***************************************************************************)
Quiet == \A r \in Reqs : call[r].pc = "idle"

\* The new strategy put in front of the list instead of at its end.
AddDiscountStrategyFirst(kind) ==
    /\ Quiet
    /\ Len(strategies) < MaxStrategies
    /\ strategies' = <<kind>> \o strategies
    /\ UNCHANGED <<catalog, call>>

AddDiscountStrategy(kind) ==
    /\ Quiet
    /\ Len(strategies) < MaxStrategies
    /\ strategies' = Append(strategies, kind)
    /\ UNCHANGED <<catalog, call>>

\* InventoryRepository.upsert: the record stored under the id is replaced.
Upsert(id, product) ==
    /\ Quiet
    /\ catalog' = [x \in (DOMAIN catalog) \cup {id} |->
                      IF x = id THEN product ELSE catalog[x]]
    /\ UNCHANGED <<strategies, call>>

SetMinPrice(id, min_price) ==
    /\ Quiet
    /\ id \in DOMAIN catalog
    /\ catalog' = [catalog EXCEPT ![id].min_price_possible = min_price]
    /\ UNCHANGED <<strategies, call>>

(***************************************************************************)
(* Construction.  ECommerceFactory.setup seeds three products and          *)
(* registers Category, Brand, Payment, Coupon; a bare DiscountService      *)
(* starts with no strategy.                                                *)
(***************************************************************************)
Seed(brand, min_price) ==
    [brand |-> brand, category |-> "Shoes", base_price |-> Money(1000),
     current_price |-> Money(1000), min_price_possible |-> Money(min_price),
     quantity |-> InitStock]

FactoryCatalog ==
    [id \in {"1", "2", "3"} |->
        CASE id = "1" -> Seed("PUMA", 800)
          [] id = "2" -> Seed("ADIDAS", 700)
          [] id = "3" -> Seed("NIKE", 850)]

FactoryChain == <<"Category", "Brand", "Payment", "Coupon">>

(***************************************************************************)
(* Inputs.                                                                 *)
(***************************************************************************)
\* A Product as the caller builds it for a cart: base_price and
\* min_price_possible left at their default None.
Snapshot(id, brand, category, price) ==
    [id |-> id, brand |-> brand, category |-> category, current_price |-> price,
     base_price |-> PriceNone, min_price_possible |-> PriceNone]

CartLine(product, quantity) == [product |-> product, quantity |-> quantity]

SeqsUpTo(S, n) == UNION {[1..m -> S] : m \in 0..n}

\* The three seeded brands by product id; "9" is in no catalog.
BrandOf(id) ==
    CASE id = "1" -> "PUMA" [] id = "2" -> "ADIDAS" [] id = "3" -> "NIKE"
      [] OTHER -> "PUMA"

StockLines ==
    {CartLine(Snapshot(id, BrandOf(id), "SHOES", Money(1000)), q) :
        id \in {"1", "2", "9"}, q \in 1..MaxQty}
    \cup {CartLine(Snapshot("1", "PUMA", "SHOES", PriceNone), 1)}

StockCarts == SeqsUpTo(StockLines, MaxLines)

RECURSIVE Requested(_, _, _)
Requested(cart_items, id, n) ==
    IF n = 0 THEN 0
    ELSE Requested(cart_items, id, n - 1)
         + (IF cart_items[n].product.id = id THEN cart_items[n].quantity ELSE 0)

Total(cart_items, id) == Requested(cart_items, id, Len(cart_items))

\* A release is only started for stock that fits the shelf.
Fits(cart_items) ==
    \A id \in DOMAIN catalog :
        catalog[id].quantity + Total(cart_items, id) <= InitStock

Init ==
    /\ catalog = FactoryCatalog
    /\ strategies = FactoryChain
    /\ call = [r \in Reqs |-> Idle]

Calculate(r) ==
    /\ call[r].pc = "idle"
    /\ \E c \in StockCarts, cd \in {NoCode, "PREMIUM"}, rs \in BOOLEAN :
          Start(r, "calculate", c, "PREMIUM", Card("DEBIT"), cd, rs)

Reserve(r) ==
    /\ call[r].pc = "idle"
    /\ \E c \in StockCarts :
          Start(r, "reserve", c, "PREMIUM", NoPayment, NoCode, FALSE)

Release(r) ==
    /\ call[r].pc = "idle"
    /\ \E c \in StockCarts :
          /\ Fits(c)
          /\ Start(r, "release", c, "PREMIUM", NoPayment, NoCode, FALSE)

ValidateCode(r) ==
    /\ call[r].pc = "idle"
    /\ \E c \in StockCarts, cd \in {"NIKE10", "PREMIUM"} :
          Start(r, "validate_code", c, "PREMIUM", NoPayment, cd, FALSE)

Step(r) ==
    \/ ValidateStep(r)
    \/ ReserveCheck(r)
    \/ ReserveUpdate(r)
    \/ OriginalPrice(r)
    \/ PriceLine(r)
    \/ ReleaseStep(r)
    \/ AvailableStep(r)
    \/ ScanStep(r)
    \/ Cancel(r)
    \/ Return(r)

Next ==
    \E r \in Reqs :
        \/ Calculate(r)
        \/ Reserve(r)
        \/ Release(r)
        \/ ValidateCode(r)
        \/ Step(r)

Spec == Init /\ [][Next]_vars

(***************************************************************************)
(* Pricing: a bare DiscountService whose chain is built by                 *)
(* add_discount_strategy, quotes (reserve_inventory = false) for product   *)
(* "3" under every snapshot, customer, payment and code below, and the     *)
(* floor of product "3" moved by set_min_price.                            *)
(***************************************************************************)
QuoteSnapshots ==
    {Snapshot("3", "NIKE", "SHOES", Money(1000)),
     Snapshot("3", "ZARA", "SHOES", Money(1000)),
     Snapshot("3", "NIKE", "Shoes", Money(1000))}

QuoteLines == {CartLine(s, MaxQty) : s \in QuoteSnapshots}

QuoteCarts == SeqsUpTo(QuoteLines, MaxLines)

QuoteFloors == {Money(920), Money(1100)}

\* Product "3" put on sale: its current price below its base price.
OnSale == [FactoryCatalog["3"] EXCEPT !.current_price = Money(900)]

InitPricing ==
    /\ catalog = FactoryCatalog
    /\ strategies = <<>>
    /\ call = [r \in Reqs |-> Idle]

Registered(kind) == \E k \in 1..Len(strategies) : strategies[k] = kind

\* payment_info is read by PaymentDiscountStrategy only, code by
\* CouponDiscountStrategy only: each is varied when the chain holds its reader.
QuotePayments ==
    IF Registered("Payment")
    THEN {NoPayment, Upi, UpiCard("CREDIT"), Card("CREDIT"), Card("NONE")}
    ELSE {NoPayment}

QuoteCodes ==
    IF Registered("Coupon") THEN {NoCode, "", "NIKE10", "PREMIUM"} ELSE {NoCode}

Quote(r) ==
    /\ call[r].pc = "idle"
    /\ \E c \in QuoteCarts, t \in {"PREMIUM", "REGULAR"},
          p \in QuotePayments, cd \in QuoteCodes :
          Start(r, "calculate", c, t, p, cd, FALSE)

NextPricing ==
    \/ \E kind \in Kinds : AddDiscountStrategy(kind)
    \/ \E m \in QuoteFloors : SetMinPrice("3", m)
    \/ Upsert("3", OnSale)
    \/ \E r \in Reqs :
        \/ Quote(r)
        \/ ValidateStep(r)
        \/ OriginalPrice(r)
        \/ PriceLine(r)
        \/ Return(r)

SpecPricing == InitPricing /\ [][NextPricing]_vars

(***************************************************************************)
(* Two requests on one product, run once each and interleaved at the       *)
(* repository awaits: the services hold no lock.                           *)
(***************************************************************************)
Racers == {1, 2}

RaceCarts ==
    {<<CartLine(Snapshot("1", "PUMA", "SHOES", Money(1000)), q)>> : q \in 1..MaxQty}

InitRace ==
    /\ catalog = FactoryCatalog
    /\ strategies = FactoryChain
    /\ call = [r \in Racers |-> Idle]

RaceCalculate(r) ==
    /\ call[r].pc = "idle"
    /\ \E c \in RaceCarts, cd \in {NoCode, "PREMIUM"}, rs \in BOOLEAN :
          Start(r, "calculate", c, "PREMIUM", NoPayment, cd, rs)

RaceReserve(r) ==
    /\ call[r].pc = "idle"
    /\ \E c \in RaceCarts :
          Start(r, "reserve", c, "PREMIUM", NoPayment, NoCode, FALSE)

NextRace ==
    \E r \in Racers :
        \/ RaceCalculate(r)
        \/ RaceReserve(r)
        \/ ValidateStep(r)
        \/ ReserveCheck(r)
        \/ ReserveUpdate(r)
        \/ OriginalPrice(r)
        \/ PriceLine(r)
        \/ ReleaseStep(r)

SpecRace == InitRace /\ [][NextRace]_vars

(***************************************************************************)
(* The pricing loop with the rule tables as the repository builds them:    *)
(* Decimal(0.1) and Decimal(0.05) are the binary doubles nearest to 0.1    *)
(* and 0.05, a little over the tenth and the twentieth.  An amount is      *)
(* ticks / Scale less short units of 10^-22; a whole amount has short 0.   *)
(* The context's rounding to 28 digits is below that unit.                 *)
(***************************************************************************)
\* Decimal(0.1) - 1/10 and Decimal(0.05) - 1/20, in units of 10^-22.
FloatExcess(percentage) == IF percentage = 10 THEN 55511 ELSE 27755

DecimalOf(ticks) == [ticks |-> ticks, short |-> 0]

\* (ticks / Scale) * x, the fraction dropped.
WholeTimes(ticks, x) == (ticks \div Scale) * x + ((ticks % Scale) * x) \div Scale

Under(amount, floor) ==
    amount.ticks < floor \/ (amount.ticks = floor /\ amount.short > 0)

\* current_price - current_price * percentage, then max with the floor.
DeductDecimal(amount, floor, percentage) ==
    LET reduced ==
            [ticks |-> amount.ticks - Times(amount.ticks, percentage),
             short |-> amount.short - (amount.short * percentage) \div PctDen
                         + WholeTimes(amount.ticks, FloatExcess(percentage))]
    IN  IF Under(reduced, floor) THEN DecimalOf(floor) ELSE reduced

RateOf(kind, product, customer) ==
    IF kind = "Brand" THEN brand_discounts[customer][product.brand]
    ELSE category_discounts[customer][product.category]

ApplyDecimal(kind, product, customer, amount) ==
    IF ~validate_discount_code(kind, product, customer, NoPayment, NoCode)
    THEN [applied |-> FALSE, price |-> amount]
    ELSE [applied |-> TRUE,
          price |-> DeductDecimal(amount, product.min_price_possible,
                                  RateOf(kind, product, customer))]

DecimalChains == [1..2 -> {"Category", "Brand"}]

DecimalSnapshots ==
    QuoteSnapshots \cup {Snapshot("1", "PUMA", "SHOES", Money(1000))}

DecimalCarts ==
    SeqsUpTo({CartLine(s, q) : s \in DecimalSnapshots, q \in 1..MaxQty},
             MaxLines) \ {<<>>}

DecimalIdle ==
    [pc |-> "idle", cart |-> <<>>, customer |-> "PREMIUM", i |-> 0, k |-> 0,
     price |-> DecimalOf(0), final_price |-> DecimalOf(0), trail |-> <<>>]

InitDecimal ==
    /\ catalog = FactoryCatalog
    /\ strategies \in DecimalChains
    /\ call = [r \in Reqs |-> DecimalIdle]

\* calculate_cart_discounts(cart_items, customer) entered at its pricing loop.
QuoteDecimal(r) ==
    /\ call[r].pc = "idle"
    /\ \E c \in DecimalCarts, t \in Tiers :
          call' = [call EXCEPT ![r] = [DecimalIdle EXCEPT !.pc = "copy",
                                          !.cart = c, !.customer = t, !.i = 1]]
    /\ UNCHANGED <<catalog, strategies>>

\* The copy of line i takes the stored prices.
CopyDecimal(r) ==
    /\ call[r].pc = "copy"
    /\ LET f == call[r]
           db == catalog[f.cart[f.i].product.id]
       IN  call' = [call EXCEPT ![r] =
                      [f EXCEPT !.pc = "apply", !.k = 1,
                                !.price = DecimalOf(db.current_price)]]
    /\ UNCHANGED <<catalog, strategies>>

\* One apply_discounts on the copy of line i; after the last strategy the
\* line's price times its quantity is added to final_price.
StrategyDecimal(r) ==
    /\ call[r].pc = "apply"
    /\ LET f == call[r]
           line == f.cart[f.i]
           db == catalog[line.product.id]
           product == [line.product EXCEPT
                          !.base_price = db.base_price,
                          !.min_price_possible = db.min_price_possible]
           out == ApplyDecimal(strategies[f.k], product, f.customer, f.price)
           g == [f EXCEPT !.price = out.price,
                          !.trail = Append(@, [line |-> f.i,
                                               kind |-> strategies[f.k],
                                               applied |-> out.applied,
                                               after |-> out.price])]
           sum == [ticks |-> f.final_price.ticks + out.price.ticks * line.quantity,
                   short |-> f.final_price.short + out.price.short * line.quantity]
       IN  call' = [call EXCEPT ![r] =
                      IF f.k < Len(strategies) THEN [g EXCEPT !.k = f.k + 1]
                      ELSE IF f.i < Len(f.cart)
                      THEN [g EXCEPT !.final_price = sum, !.i = f.i + 1,
                                     !.pc = "copy"]
                      ELSE [g EXCEPT !.final_price = sum, !.pc = "done"]]
    /\ UNCHANGED <<catalog, strategies>>

NextDecimal ==
    \E r \in Reqs : QuoteDecimal(r) \/ CopyDecimal(r) \/ StrategyDecimal(r)

SpecDecimal == InitDecimal /\ [][NextDecimal]_vars

(***************************************************************************)
(* Discount (models.py) and DiscountRepository.upsert.  Discount is a      *)
(* standard-library dataclass: its generated __init__ assigns the fields   *)
(* and calls nothing else, so the method decorated with field_validator is *)
(* never run.  The repository's _discounts is carried in the frame: no     *)
(* other operation reads it.                                               *)
(***************************************************************************)
DiscountNames == {"FLAT", "SALE"}
DiscountAmounts == {PriceNone, Money(50), Money(100)}
DiscountPercentages == {PriceNone, 5, 10}

\* Discount(name=name, amount=amount, percentage=percentage)
DiscountInit(name, amount, percentage) ==
    [result |-> "ok",
     discount |-> [name |-> name, amount |-> amount, percentage |-> percentage]]

DiscountIdle ==
    [pc |-> "idle", result |-> "none",
     discount |-> [name |-> "", amount |-> PriceNone, percentage |-> PriceNone],
     _discounts |-> EmptyMap]

InitDiscount ==
    /\ catalog = FactoryCatalog
    /\ strategies = <<>>
    /\ call = [r \in Reqs |-> DiscountIdle]

NewDiscount(r) ==
    /\ call[r].pc = "idle"
    /\ \E n \in DiscountNames, a \in DiscountAmounts, p \in DiscountPercentages :
          LET made == DiscountInit(n, a, p)
          IN  call' = [call EXCEPT ![r] =
                         [@ EXCEPT !.pc = "built",
                                   !.result = made.result,
                                   !.discount = made.discount]]
    /\ UNCHANGED <<catalog, strategies>>

\* DiscountRepository.upsert(discount)
UpsertDiscount(r) ==
    /\ call[r].pc = "built"
    /\ call' = [call EXCEPT ![r] =
                  [@ EXCEPT !.pc = "idle",
                            !._discounts = Put(@, call[r].discount.name,
                                               call[r].discount)]]
    /\ UNCHANGED <<catalog, strategies>>

NextDiscount == \E r \in Reqs : NewDiscount(r) \/ UpsertDiscount(r)

SpecDiscount == InitDiscount /\ [][NextDiscount]_vars

(***************************************************************************)
(* validate_discount_code under every chain add_discount_strategy builds,  *)
(* on a catalog whose stock of product "1" an earlier reservation may have *)
(* lowered.                                                                *)
(***************************************************************************)
\* Product "1" as the catalog has it; "2" with a brand and "3" with a
\* category that no row lists; "9" is in no catalog.
CodeLines ==
    {CartLine(Snapshot("1", "PUMA", "SHOES", Money(1000)), q) : q \in {1, MaxQty}}
    \cup {CartLine(Snapshot("2", "ZARA", "SHOES", Money(1000)), 1),
          CartLine(Snapshot("3", "NIKE", "Shoes", Money(1000)), 1),
          CartLine(Snapshot("9", "PUMA", "SHOES", Money(1000)), 1)}

CodeCarts == SeqsUpTo(CodeLines, MaxLines)

InitCode ==
    /\ catalog = FactoryCatalog
    /\ strategies = <<>>
    /\ call = [r \in Reqs |-> Idle]

\* reserve_items for MaxQty units of product "1".
CodeReserve(r) ==
    /\ call[r].pc = "idle"
    /\ Start(r, "reserve",
             <<CartLine(Snapshot("1", "PUMA", "SHOES", Money(1000)), MaxQty)>>,
             "PREMIUM", NoPayment, NoCode, FALSE)

CodeValidate(r) ==
    /\ call[r].pc = "idle"
    /\ \E c \in CodeCarts, cd \in QuoteCodes :
          Start(r, "validate_code", c, "PREMIUM", NoPayment, cd, FALSE)

NextCode ==
    \/ \E kind \in Kinds : AddDiscountStrategy(kind)
    \/ \E r \in Reqs :
          \/ CodeReserve(r)
          \/ ReserveCheck(r)
          \/ ReserveUpdate(r)
          \/ CodeValidate(r)
          \/ AvailableStep(r)
          \/ ScanStep(r)
          \/ Return(r)

SpecCode == InitCode /\ [][NextCode]_vars

(***************************************************************************)
(* calculate_cart_discounts called again and again, one call at a time.    *)
(* call[0] is the tally: per product, the units asked by the calls that    *)
(* returned with reserve_inventory true.                                   *)
(***************************************************************************)
InitSequence ==
    /\ catalog = FactoryCatalog
    /\ strategies = FactoryChain
    /\ call = [x \in Reqs \cup {0} |->
                  IF x \in Reqs THEN Idle
                  ELSE [id \in DOMAIN FactoryCatalog |-> 0]]

\* The units the finished call of frame f keeps reserved.
Kept(f, id) ==
    IF f.op = "calculate" /\ f.pc = "done" /\ f.result = "ok"
       /\ f.reserve_inventory
    THEN Total(f.cart, id) ELSE 0

\* The call has ended; its units, if it returned reserving, join the tally.
Settle(r) ==
    /\ call[r].pc = "done"
    /\ LET f == call[r]
           tally == call[0]
       IN  call' = [call EXCEPT ![r] = Idle,
                                ![0] = [id \in DOMAIN tally |->
                                           tally[id] + Kept(f, id)]]
    /\ UNCHANGED <<catalog, strategies>>

NextSequence ==
    \E r \in Reqs :
        \/ Calculate(r)
        \/ ValidateStep(r)
        \/ ReserveCheck(r)
        \/ ReserveUpdate(r)
        \/ OriginalPrice(r)
        \/ PriceLine(r)
        \/ ReleaseStep(r)
        \/ Settle(r)

SpecSequence == InitSequence /\ [][NextSequence]_vars

(***************************************************************************)
(* Properties.  A finished call is a frame at "done": its outcome is       *)
(* result, and pre is the catalog as the call found it.                    *)
(***************************************************************************)
Finished(f, o) == f.pc = "done" /\ f.op = o /\ f.result # "CancelledError"

SameStock(pre) ==
    \A id \in DOMAIN catalog : catalog[id].quantity = pre[id].quantity

Known(pre, line) == line.product.id \in DOMAIN pre

Short(pre, line) ==
    Known(pre, line) /\ pre[line.product.id].quantity < line.quantity

\* The first cart line that is unknown to, or asks more than, the catalog pre.
FirstBad(pre, cart_items) ==
    LET bad == {n \in 1..Len(cart_items) :
                    ~Known(pre, cart_items[n]) \/ Short(pre, cart_items[n])}
    IN  IF bad = {} THEN 0 ELSE CHOOSE n \in bad : \A m \in bad : n <= m

\* C1: after any sequence of reserve_items and calculate_cart_discounts
\* calls, the quantity of every catalog product is at least zero.
C1_StockNeverNegative ==
    \A id \in DOMAIN catalog : catalog[id].quantity >= 0

\* C2: reserve_items is all-or-nothing.  When some line of the cart asks
\* more than the catalog holds of its product, or names an unknown product,
\* the call raises InsufficientInventory, resp. ProductNotFound (for the
\* first such line), and every quantity is as it was before the call.
C2_ReserveAllOrNothing ==
    \A r \in Reqs :
        LET f == call[r]
            k == FirstBad(f.pre, f.cart)
        IN  (Finished(f, "reserve") /\ k # 0) =>
                /\ f.result = IF Known(f.pre, f.cart[k])
                              THEN "InsufficientInventory"
                              ELSE "ProductNotFound"
                /\ ~f.reserved
                /\ SameStock(f.pre)

\* A reservation whose second line, of another product than its first, asks
\* more than the stock, and was refused.
C2_Witness ==
    \E r \in Reqs :
        LET f == call[r]
        IN  /\ Finished(f, "reserve")
            /\ Len(f.cart) = 2
            /\ FirstBad(f.pre, f.cart) = 2
            /\ Short(f.pre, f.cart[2])
            /\ f.cart[1].product.id # f.cart[2].product.id
            /\ f.result = "InsufficientInventory"

\* C3: when calculate_cart_discounts has reserved the cart and a later step
\* raises, release_items has run when the error reaches the caller and every
\* catalog quantity is as it was before the call.
C3_RollbackOnFailure ==
    \A r \in Reqs :
        LET f == call[r]
        IN  (Finished(f, "calculate") /\ f.reserved /\ f.result # "ok") =>
                f.released /\ SameStock(f.pre)

\* A two-line reservation undone after a strategy raised.
C3_Witness ==
    \E r \in Reqs :
        LET f == call[r]
        IN  /\ Finished(f, "calculate")
            /\ f.reserved /\ f.released
            /\ f.result = "TypeError"
            /\ Len(f.cart) = 2
            /\ Len(f.trail) > 0

\* C5: when a calculate_cart_discounts call that has reserved the cart is
\* cancelled while it prices the cart, release_items still runs and the
\* catalog quantities are as they were before the call.
C5_ReleaseOnCancel ==
    \A r \in Reqs :
        LET f == call[r]
        IN  (/\ f.pc = "done" /\ f.op = "calculate"
             /\ f.reserved /\ f.result = "CancelledError" /\ f.at = "line") =>
                f.released /\ SameStock(f.pre)

(***************************************************************************)
(* Pricing properties, over the trail of strategy calls and the per-line   *)
(* unit prices of a call.                                                  *)
(***************************************************************************)
\* C4: for a product whose floor is within 0..base_price, the per-unit
\* price that enters final_price is at least the product's
\* min_price_possible, whatever the chain and however many of its strategies
\* applied (none included).
C4_FloorInvariant ==
    \A r \in Reqs : \A n \in 1..Len(call[r].units) :
        LET u == call[r].units[n]
        IN  (0 <= u.floor /\ u.floor <= u.base) => u.price >= u.floor

\* B less p1 percent, less p2 percent of what is left.
Compound(B, p1, p2) ==
    (((B \div PctDen) * (PctDen - p1)) \div PctDen) * (PctDen - p2)

\* B less p1 + p2 percent.
Additive(B, p1, p2) == (B \div PctDen) * (PctDen - p1 - p2)

\* Category applied to the catalog price, then Brand applied, on one line.
CategoryThenBrand(f, k) ==
    /\ k + 1 <= Len(f.trail)
    /\ f.trail[k].line = f.trail[k + 1].line
    /\ f.trail[k].kind = "Category" /\ f.trail[k].applied
    /\ f.trail[k + 1].kind = "Brand" /\ f.trail[k + 1].applied
    /\ f.trail[k].before = f.trail[k].start

\* C6: with Category (p1) then Brand (p2) both applicable to a line of
\* catalog price B and floor F, the price after the two is
\* max(B*(1-p1)*(1-p2), F) and not B*(1-p1-p2); Brand's deduction is taken
\* from the price Category left.
C6_Compounding ==
    \A r \in Reqs : \A k \in 1..Len(call[r].trail) :
        LET f == call[r]
            a == f.trail[k]
            b == f.trail[k + 1]
            snapshot == f.cart[a.line].product
            p1 == category_discounts[f.customer][snapshot.category]
            p2 == brand_discounts[f.customer][snapshot.brand]
        IN  CategoryThenBrand(f, k) =>
                /\ b.after = Max(Compound(a.start, p1, p2), a.floor)
                /\ b.after # Additive(a.start, p1, p2)
                /\ b.before = a.after
                /\ b.amount = Times(a.after, p2)

\* Category then Brand at different percentages, the floor not reached.
C6_Witness ==
    \E r \in Reqs : \E k \in 1..Len(call[r].trail) :
        LET f == call[r]
        IN  /\ CategoryThenBrand(f, k)
            /\ f.customer = "PREMIUM"
            /\ f.trail[k + 1].after > f.trail[k].floor
            /\ f.trail[k + 1].after = Money(855)

\* C7: the amount a strategy returns, which the ledger records, is the
\* running price before the strategy less the running price after it
\* (stated for a product whose catalog price is not below its floor).
C7_AmountIsActualDeduction ==
    \A r \in Reqs : \A k \in 1..Len(call[r].trail) :
        LET e == call[r].trail[k]
        IN  (e.applied /\ e.floor <= e.start) => e.amount = e.before - e.after

\* C8: apply_discounts applies exactly when the strategy's own
\* validate_discount_code accepts the same arguments, and otherwise returns
\* (false, 0) and leaves the price as it was.
C8_ApplyFollowsEligibility ==
    \A r \in Reqs : \A k \in 1..Len(call[r].trail) :
        LET e == call[r].trail[k]
        IN  /\ e.applied <=> e.eligible
            /\ ~e.eligible =>
                   e.raised = "none" /\ e.amount = 0 /\ e.after = e.before

\* C9: the Coupon strategy applies exactly when code is non-empty and a key
\* of the coupon row of the customer's tier, and then deducts that row's
\* percentage of the running price.
C9_CouponByTierRow ==
    \A r \in Reqs : \A k \in 1..Len(call[r].trail) :
        LET f == call[r]
            e == f.trail[k]
            row == coupon_discounts[f.customer]
            listed == f.code \notin {NoCode, ""} /\ f.code \in DOMAIN row
        IN  e.kind = "Coupon" =>
                /\ e.applied <=> listed
                /\ listed => e.amount = Times(e.before, row[f.code])

\* A cart line passes when its brand and category have entries in the rows
\* of the customer's tier.
LinePasses(product, customer) ==
    /\ product.brand \in DOMAIN brand_discounts[customer]
    /\ product.category \in DOMAIN category_discounts[customer]

\* C10: validate_discount_code("NIKE10", cart, premiumCustomer) returns
\* true exactly when every cart line passes and NIKE10 is in the coupon row
\* of PREMIUM, and raises InvalidDiscountCode otherwise.
C10_ValidateNike10 ==
    \A r \in Reqs :
        LET f == call[r]
            passes == /\ \A n \in 1..Len(f.cart) :
                             LinePasses(f.cart[n].product, f.customer)
                      /\ "NIKE10" \in DOMAIN coupon_discounts["PREMIUM"]
        IN  (/\ Finished(f, "validate_code") /\ f.code = "NIKE10"
             /\ f.customer = "PREMIUM" /\ f.result # "ProductNotFound") =>
                /\ f.result = "true" <=> passes
                /\ f.result # "true" => f.result = "InvalidDiscountCode"

(***************************************************************************)
(* Step 1 and the frame of calculate_cart_discounts.                       *)
(***************************************************************************)
\* C11: calculate_cart_discounts scans the cart lines in order and fails
\* with ProductNotFound at the first line whose product id the catalog does
\* not hold, with InsufficientInventory at the first line that asks more
\* than the catalog quantity; then nothing was reserved, released or priced
\* and the catalog is as the call found it.
C11_StepOneErrors ==
    \A r \in Reqs :
        LET f == call[r]
            k == FirstBad(f.pre, f.cart)
        IN  (Finished(f, "calculate") /\ k # 0) =>
                /\ f.result = IF Known(f.pre, f.cart[k])
                              THEN "InsufficientInventory"
                              ELSE "ProductNotFound"
                /\ ~f.reserved /\ ~f.released
                /\ f.units = <<>> /\ f.trail = <<>> /\ f.original_price = 0
                /\ catalog = f.pre

\* A reserving calculation refused at its second line, which asks more than
\* the stock of a product the first line does not name.
C11_Witness ==
    \E r \in Reqs :
        LET f == call[r]
        IN  /\ Finished(f, "calculate")
            /\ f.reserve_inventory
            /\ Len(f.cart) = 2
            /\ FirstBad(f.pre, f.cart) = 2
            /\ Short(f.pre, f.cart[2])
            /\ f.cart[1].product.id # f.cart[2].product.id
            /\ f.result = "InsufficientInventory"

\* A calculation refused at its first line, whose product is unknown.
C11_WitnessUnknown ==
    \E r \in Reqs :
        LET f == call[r]
        IN  /\ Finished(f, "calculate")
            /\ Len(f.cart) = 2
            /\ ~Known(f.pre, f.cart[1])
            /\ f.result = "ProductNotFound"

\* Price fields a caller may have put in its snapshots.
OtherPrices ==
    {[current_price |-> Money(500), base_price |-> Money(600),
      min_price_possible |-> Money(100)],
     [current_price |-> Money(2000), base_price |-> Money(3000),
      min_price_possible |-> Money(1500)]}

\* The cart with the three price fields of every snapshot replaced by v's.
Reprice(cart_items, v) ==
    [n \in 1..Len(cart_items) |->
        [cart_items[n] EXCEPT !.product.current_price = v.current_price,
                              !.product.base_price = v.base_price,
                              !.product.min_price_possible = v.min_price_possible]]

\* The pricing of f's call run again, on the same catalog, chain, customer,
\* payment and code, with the cart repriced by v.
Requote(f, v) ==
    Priced(EnterLines([f EXCEPT !.cart = Reprice(f.cart, v), !.i = 0,
                                !.final_price = 0,
                                !.applied_discounts = EmptyMap,
                                !.trail = <<>>, !.units = <<>>]))

\* C12: final_price and the ledger do not depend on the price fields of the
\* caller's snapshots: the same call on a cart that differs only in its
\* snapshots' base_price, current_price and min_price_possible returns the
\* same final_price and the same ledger, and each line is priced from the
\* catalog's current_price and min_price_possible.
C12_SnapshotPricesIgnored ==
    \A r \in Reqs :
        LET f == call[r]
        IN  (Finished(f, "calculate") /\ f.result = "ok") =>
                /\ \A v \in OtherPrices : \A g \in {Requote(f, v)} :
                      /\ g.result = "ok"
                      /\ g.final_price = f.final_price
                      /\ g.applied_discounts = f.applied_discounts
                /\ \A n \in 1..Len(f.units) :
                      /\ f.units[n].start = catalog[f.units[n].id].current_price
                      /\ f.units[n].floor
                            = catalog[f.units[n].id].min_price_possible

\* A discounted quote of a product whose catalog price is not the price in
\* the caller's snapshot.
C12_Witness ==
    \E r \in Reqs :
        LET f == call[r]
        IN  /\ Finished(f, "calculate") /\ f.result = "ok"
            /\ Len(f.cart) = 2
            /\ catalog["3"].current_price # f.cart[1].product.current_price
            /\ "3" \in DOMAIN f.applied_discounts
            /\ f.final_price < MaxQty * 2 * catalog["3"].current_price

\* Sum over the cart lines of the snapshot's current_price times quantity.
RECURSIVE SnapshotTotal(_)
SnapshotTotal(cart_items) ==
    IF cart_items = <<>> THEN 0
    ELSE Head(cart_items).product.current_price * Head(cart_items).quantity
         + SnapshotTotal(Tail(cart_items))

\* C13: the original_price a calculation returns is the sum over the cart
\* lines of the caller's snapshot current_price times the quantity asked,
\* whatever the catalog's price of the product.
C13_OriginalFromSnapshots ==
    \A r \in Reqs :
        LET f == call[r]
        IN  (Finished(f, "calculate") /\ f.result = "ok") =>
                f.original_price = SnapshotTotal(f.cart)

\* A two-line quote of a product whose catalog price was lowered after the
\* caller took its snapshots.
C13_Witness ==
    \E r \in Reqs :
        LET f == call[r]
        IN  /\ Finished(f, "calculate") /\ f.result = "ok"
            /\ Len(f.cart) = 2
            /\ catalog["3"].current_price < f.cart[1].product.current_price
            /\ f.original_price = 2 * MaxQty * Money(1000)

\* The price fields of every catalog record.
PricesOf(cat) ==
    [id \in DOMAIN cat |->
        <<cat[id].base_price, cat[id].current_price, cat[id].min_price_possible>>]

\* C14: no step of calculate_cart_discounts (successful or failing, reserving
\* or not) changes the base_price, current_price or min_price_possible of a
\* catalog record, nor the caller's cart; only quantities may change.
C14_PricesUntouched ==
    [][\A r \in Reqs :
          (call[r].op = "calculate" /\ call'[r].op = "calculate") =>
              /\ PricesOf(catalog') = PricesOf(catalog)
              /\ call'[r].cart = call[r].cart]_vars

\* A reserving calculation that applied discounts and returned: quantities
\* went down, the catalog's price fields are as before.
C14_Witness ==
    \E r \in Reqs :
        LET f == call[r]
        IN  /\ Finished(f, "calculate") /\ f.result = "ok"
            /\ f.reserve_inventory /\ f.reserved
            /\ f.final_price < f.original_price
            /\ \E id \in DOMAIN catalog : catalog[id].quantity < f.pre[id].quantity
            /\ PricesOf(catalog) = PricesOf(f.pre)

\* Strategy name was returned applied = TRUE for a line of product id.
AppliedTo(f, id, name) ==
    \E k \in 1..Len(f.trail) :
        /\ f.trail[k].applied
        /\ f.cart[f.trail[k].line].product.id = id
        /\ StrategyName(f.trail[k].kind) = name

Recorded(ledger, id, name) == id \in DOMAIN ledger /\ name \in DOMAIN ledger[id]

\* C15: applied_discounts[product id][strategy name] is present exactly when
\* that strategy returned applied = TRUE for a line of that product, and a
\* product for which no strategy applied has no entry in applied_discounts.
C15_LedgerContent ==
    \A r \in Reqs :
        LET f == call[r]
            ids == {f.cart[n].product.id : n \in 1..Len(f.cart)}
                       \cup DOMAIN f.applied_discounts
            names == {StrategyName(kind) : kind \in Kinds}
                       \cup UNION {DOMAIN f.applied_discounts[id] :
                                      id \in DOMAIN f.applied_discounts}
        IN  (Finished(f, "calculate") /\ f.result = "ok") =>
                /\ \A id \in ids : \A name \in names :
                      Recorded(f.applied_discounts, id, name)
                          <=> AppliedTo(f, id, name)
                /\ \A id \in DOMAIN f.applied_discounts :
                      \E name \in names : AppliedTo(f, id, name)

\* Of a chain of two, one strategy applied to the product and the other not.
C15_Witness ==
    \E r \in Reqs :
        LET f == call[r]
        IN  /\ Finished(f, "calculate") /\ f.result = "ok"
            /\ Len(strategies) = 2 /\ strategies[1] # strategies[2]
            /\ \E id \in DOMAIN f.applied_discounts :
                  Cardinality(DOMAIN f.applied_discounts[id]) = 1
            /\ \E k \in 1..Len(f.trail) : ~f.trail[k].applied

(***************************************************************************)
(* Eligibility and effect of the single strategies.                        *)
(***************************************************************************)
\* C16: the Payment strategy applies exactly when payment info is present,
\* its method is CARD and its card type has an entry in the card-type row of
\* the customer's tier; otherwise (no payment info, UPI) it returns
\* (False, 0) and leaves the running price as it was.
C16_PaymentEligibility ==
    \A r \in Reqs : \A k \in 1..Len(call[r].trail) :
        LET f == call[r]
            e == f.trail[k]
            p == f.payment_info
            entitled == /\ p.present
                        /\ p.method = "CARD"
                        /\ p.card_type \in DOMAIN card_type_discounts[f.customer]
        IN  e.kind = "Payment" =>
                /\ e.applied <=> entitled
                /\ e.eligible <=> entitled
                /\ e.raised = "none"
                /\ ~e.applied => (e.amount = 0 /\ e.after = e.before)
                /\ e.applied =>
                      e.after = Max(e.before - Times(e.before,
                                        card_type_discounts[f.customer][p.card_type]),
                                    e.floor)

\* A UPI payment that carries a listed card type: Payment did not apply.
C16_Witness ==
    \E r \in Reqs : \E k \in 1..Len(call[r].trail) :
        LET f == call[r]
            e == f.trail[k]
        IN  /\ e.kind = "Payment"
            /\ f.payment_info = UpiCard("CREDIT")
            /\ ~e.applied /\ e.amount = 0 /\ e.after = e.before

\* The rule-table row a Brand or Category step of f reads, and its key.
RowOf(f, e) ==
    IF e.kind = "Brand" THEN brand_discounts[f.customer]
    ELSE category_discounts[f.customer]

KeyOf(f, e) ==
    IF e.kind = "Brand" THEN f.cart[e.line].product.brand
    ELSE f.cart[e.line].product.category

\* C17: the Brand strategy (the Category strategy, keyed by category)
\* applies exactly when the product's brand (category) has an entry in the
\* row of the customer's tier, and then the new running price is
\* max(running - running * percentage, floor) with that row's percentage;
\* otherwise the running price stays.
C17_BrandCategory ==
    \A r \in Reqs : \A k \in 1..Len(call[r].trail) :
        LET f == call[r]
            e == f.trail[k]
            listed == KeyOf(f, e) \in DOMAIN RowOf(f, e)
        IN  e.kind \in {"Brand", "Category"} =>
                /\ e.applied <=> listed
                /\ e.raised = "none"
                /\ e.applied =>
                      e.after = Max(e.before
                                      - Times(e.before, RowOf(f, e)[KeyOf(f, e)]),
                                    e.floor)
                /\ ~e.applied => (e.amount = 0 /\ e.after = e.before)

\* Brand applied for a REGULAR customer above the floor, after Category.
C17_Witness ==
    \E r \in Reqs : \E k \in 1..Len(call[r].trail) :
        LET f == call[r]
            e == f.trail[k]
        IN  /\ e.kind = "Brand" /\ e.applied
            /\ f.customer = "REGULAR"
            /\ e.before < e.start
            /\ e.after > e.floor
            /\ e.after = e.before - Times(e.before, 5)

\* Brand not applied to a brand no row lists.
C17_WitnessUnlisted ==
    \E r \in Reqs : \E k \in 1..Len(call[r].trail) :
        LET f == call[r]
            e == f.trail[k]
        IN  /\ e.kind = "Brand" /\ ~e.applied
            /\ f.cart[e.line].product.brand = "ZARA"

(***************************************************************************)
(* Order of the chain.                                                     *)
(***************************************************************************)
Reverse(chain) == [k \in 1..Len(chain) |-> chain[Len(chain) + 1 - k]]

\* Strategy kind run alone on line n of f's cart.
Alone(kind, f, n) ==
    LET copy == ProductCopy(f.cart[n].product, catalog[f.cart[n].product.id])
    IN  RunChain(<<kind>>, 1, n, copy, f.customer, f.payment_info, f.code,
                 [price |-> copy.current_price, ledger |-> EmptyMap,
                  trail |-> <<>>, raised |-> "none"]).trail[1]

\* kind is applicable to line n and alone takes its price under the floor.
Below(kind, f, n) ==
    LET e == Alone(kind, f, n)
    IN  e.applied /\ e.start - e.amount < e.floor

\* kind is applicable to line n and alone leaves its price at or above the floor.
Above(kind, f, n) ==
    LET e == Alone(kind, f, n)
    IN  e.applied /\ e.start - e.amount >= e.floor

\* A returned quote under a chain [p1, p2] every line of which p1 alone
\* takes under the floor and p2 alone does not.
ClampCase(f) ==
    /\ Finished(f, "calculate") /\ f.result = "ok"
    /\ Len(strategies) = 2 /\ Len(f.cart) > 0
    /\ \A n \in 1..Len(f.cart) :
          Below(strategies[1], f, n) /\ Above(strategies[2], f, n)

RECURSIVE FloorTotal(_, _)
FloorTotal(f, n) ==
    IF n = 0 THEN 0
    ELSE FloorTotal(f, n - 1)
         + catalog[f.cart[n].product.id].min_price_possible * f.cart[n].quantity

\* C18 as stated: where p1 alone would take the price under the floor and p2
\* alone would not, the chain [p1, p2] and the reversed chain [p2, p1] give
\* different final prices.
C18_OrderChangesTotal ==
    \A r \in Reqs :
        LET f == call[r]
        IN  ClampCase(f) =>
                QuoteWith(Reverse(strategies), f, Len(f.cart)).final_price
                    # f.final_price

\* C18, amended: in that case the chain [p1, p2] and the reversed chain
\* [p2, p1] give the same final price, every line ending at its floor.
C18_OrderKeepsTotal ==
    \A r \in Reqs :
        LET f == call[r]
        IN  ClampCase(f) =>
                /\ f.final_price = FloorTotal(f, Len(f.cart))
                /\ QuoteWith(strategies, f, Len(f.cart)).final_price
                      = f.final_price
                /\ QuoteWith(Reverse(strategies), f, Len(f.cart)).final_price
                      = f.final_price

\* Brand (10%) before Category (5%) on a product priced 1000 with floor 920.
C18_Witness ==
    \E r \in Reqs :
        LET f == call[r]
        IN  /\ ClampCase(f)
            /\ strategies = <<"Brand", "Category">>
            /\ f.units[1].start = Money(1000)
            /\ f.units[1].floor = Money(920)

\* C19: in a case where p1 alone would take the price under the floor and p2
\* alone would not, the amounts recorded in applied_discounts differ between
\* the chain [p1, p2] and the reversed chain [p2, p1].
C19_OrderChangesLedger ==
    \A r \in Reqs :
        LET f == call[r]
        IN  ClampCase(f) =>
                /\ QuoteWith(strategies, f, Len(f.cart)).applied_discounts
                      = f.applied_discounts
                /\ \A back \in {QuoteWith(Reverse(strategies), f, Len(f.cart))} :
                      /\ DOMAIN back.applied_discounts
                            = DOMAIN f.applied_discounts
                      /\ \A id \in DOMAIN f.applied_discounts :
                            /\ DOMAIN back.applied_discounts[id]
                                  = DOMAIN f.applied_discounts[id]
                            /\ \E name \in DOMAIN f.applied_discounts[id] :
                                  back.applied_discounts[id][name]
                                      # f.applied_discounts[id][name]

\* Brand then Category records Brand's amount of the full price; Category
\* then Brand records Brand's amount of the price Category left.
C19_Witness ==
    \E r \in Reqs :
        LET f == call[r]
        IN  /\ ClampCase(f)
            /\ strategies = <<"Brand", "Category">>
            /\ f.applied_discounts["3"]["BrandDiscount"] = Money(100)
            /\ QuoteWith(Reverse(strategies), f, Len(f.cart))
                  .applied_discounts["3"]["BrandDiscount"] = Money(95)

\* The trail of a calculation follows the registered list: call k on a line
\* is the k-th registered strategy, and it starts from the catalog price
\* (k = 1) or from the price call k - 1 left.
InOrder(f) ==
    LET L == Len(strategies)
    IN  /\ \A k \in 1..Len(f.trail) :
              LET e == f.trail[k]
                  pos == ((k - 1) % L) + 1
              IN  /\ e.kind = strategies[pos]
                  /\ e.line = ((k - 1) \div L) + 1
                  /\ e.before = IF pos = 1 THEN e.start ELSE f.trail[k - 1].after
        /\ (Finished(f, "calculate") /\ f.result = "ok") =>
              Len(f.trail) = L * Len(f.cart)

\* The list changes only by one strategy appended at its end.
Grows == strategies' = strategies
             \/ \E kind \in Kinds : strategies' = Append(strategies, kind)

Held(f, id) ==
    IF f.reserved /\ ~f.released THEN Total(f.cart, id) ELSE 0

RECURSIVE HeldBy(_, _)
HeldBy(rs, id) ==
    IF rs = {} THEN 0
    ELSE LET r == CHOOSE x \in rs : TRUE
         IN  Held(call[r], id) + HeldBy(rs \ {r}, id)

\* C22: calculate_cart_discounts calls release_items only when
\* reserve_inventory is true and reserve_items has returned: when
\* reserve_items itself fails, and when a call with reserve_inventory false
\* fails at any step, nothing is released and no quantity is added back (every
\* quantity is the stock less the units the calls hold reserved).
C22_ReleaseOnlyAfterReserve ==
    /\ \A r \in Racers :
          LET f == call[r]
          IN  /\ (f.op = "calculate" /\ (f.pc = "release" \/ f.released)) =>
                    (f.reserve_inventory /\ f.reserved)
              /\ (f.op = "calculate" /\ f.pc = "done" /\ f.result # "ok"
                    /\ ~(f.reserve_inventory /\ f.reserved)) => ~f.released
    /\ \A id \in DOMAIN catalog :
          catalog[id].quantity = InitStock - HeldBy(Racers, id)

\* reserve_items failed inside a reserving calculation: its first pass found
\* the stock taken by the other request after step 1 had passed.
C22_Witness ==
    \E r \in Racers :
        LET f == call[r]
        IN  /\ f.op = "calculate" /\ f.pc = "done"
            /\ f.reserve_inventory
            /\ f.result = "InsufficientInventory" /\ f.at = "check"
            /\ ~f.reserved /\ ~f.released

\* A calculation that was not reserving failed in its pricing loop.
C22_WitnessNotReserving ==
    \E r \in Racers :
        LET f == call[r]
        IN  /\ f.op = "calculate" /\ f.pc = "done"
            /\ ~f.reserve_inventory
            /\ f.result = "TypeError" /\ f.at = "line"
            /\ ~f.released

\* The request of frame f, run alone on the factory catalog, is satisfiable.
Satisfiable(f) ==
    \A n \in 1..Len(f.cart) : f.cart[n].quantity <= InitStock

\* Frame f has passed the first pass of reserve_items.
PassedCheck(f) == f.pc = "update" \/ f.reserved

\* Every request that leaves the first pass found the stock sufficient.
ChecksPass ==
    \A r \in Racers :
        (call[r].pc = "check" /\ call'[r].pc = "update") =>
            catalog[Line(call[r]).product.id].quantity >= Line(call[r]).quantity

\* The step that takes the stock of product "1" below zero is the decrement
\* of one request while the other already holds its units.
Oversell ==
    (catalog["1"].quantity >= 0 /\ catalog'["1"].quantity < 0) =>
        \E r \in Racers :
            /\ call[r].pc = "update" /\ call'[r].reserved
            /\ \A o \in Racers \ {r} : Held(call[o], "1") > 0

\* C23: two requests for the same product, interleaved at the repository
\* calls with no lock: each passes the availability check on sufficient
\* stock and each alone is satisfiable, yet the quantity ends below zero,
\* and only by both requests decrementing after both had passed the check.
C23_CheckThenActRace ==
    /\ [](catalog["1"].quantity < 0 =>
            \A r \in Racers :
                /\ Held(call[r], "1") > 0
                /\ Satisfiable(call[r])
                /\ call[r].result \notin {"InsufficientInventory"})
    /\ [][ChecksPass /\ Oversell]_vars

\* Both requests hold their units and the quantity of product "1" is below
\* zero.
C23_Witness ==
    /\ catalog["1"].quantity < 0
    /\ \A r \in Racers :
          /\ call[r].reserved /\ ~call[r].released
          /\ Satisfiable(call[r])
          /\ Total(call[r].cart, "1") <= InitStock

\* Both requests have passed the check and neither has decremented yet,
\* although the stock cannot serve both.
C23_WitnessBothPassed ==
    /\ catalog["1"].quantity = InitStock
    /\ \A r \in Racers : call[r].pc = "update"
    /\ Total(call[1].cart, "1") + Total(call[2].cart, "1") > InitStock

\* The scenario: chain [Category, Brand], a cart of 2 units of product "1"
\* (PUMA, SHOES), a PREMIUM customer.
Scenario(f) ==
    /\ strategies = <<"Category", "Brand">>
    /\ f.cart = <<CartLine(Snapshot("1", "PUMA", "SHOES", Money(1000)), 2)>>
    /\ f.customer = "PREMIUM"
    /\ f.pc = "done"

\* C24: in the scenario the per-unit price is 950 after Category and 855
\* after Brand, the floor 800 is not hit, and finalPrice is 1710.
C24_Scenario ==
    \A r \in Reqs :
        Scenario(call[r]) =>
            /\ Len(call[r].trail) = 2
            /\ call[r].trail[1].after = DecimalOf(Money(950))
            /\ call[r].trail[2].after = DecimalOf(Money(855))
            /\ call[r].final_price = DecimalOf(Money(1710))

\* What the loop computes in the scenario: both strategies apply, the floor
\* is not hit, and every amount falls short of the whole amount named.
C24_ScenarioShort ==
    \A r \in Reqs :
        Scenario(call[r]) =>
            /\ call[r].trail[1].applied /\ call[r].trail[2].applied
            /\ call[r].trail[1].after.ticks = Money(950)
            /\ call[r].trail[2].after.ticks = Money(855)
            /\ call[r].final_price.ticks = Money(1710)
            /\ call[r].trail[1].after.short > 0
            /\ call[r].trail[2].after.short > 0
            /\ call[r].final_price.short > 0

\* C25: after a calculate_cart_discounts that returns, with reserve_inventory
\* true every product's quantity is its quantity before the call less the
\* total quantity the cart asks of it, and the call has not released the
\* reservation; with reserve_inventory false every quantity is unchanged.
C25_StockAfterSuccess ==
    \A r \in Reqs :
        LET f == call[r]
        IN  (Finished(f, "calculate") /\ f.result = "ok") =>
                IF f.reserve_inventory
                THEN /\ \A id \in DOMAIN catalog :
                           catalog[id].quantity =
                               f.pre[id].quantity - Total(f.cart, id)
                     /\ f.reserved /\ ~f.released
                ELSE SameStock(f.pre) /\ ~f.reserved /\ ~f.released

\* A reserving calculation returned and left the stock of a product lower by
\* the two lines that ask for it.
C25_Witness ==
    \E r \in Reqs :
        LET f == call[r]
        IN  /\ Finished(f, "calculate") /\ f.result = "ok"
            /\ f.reserve_inventory
            /\ Len(f.cart) = 2
            /\ f.cart[1].product.id = f.cart[2].product.id
            /\ catalog[f.cart[1].product.id].quantity
                   = InitStock - f.cart[1].quantity - f.cart[2].quantity
            /\ f.cart[1].quantity + f.cart[2].quantity >= 3

\* A calculation that was not reserving returned.
C25_WitnessNotReserving ==
    \E r \in Reqs :
        LET f == call[r]
        IN  /\ Finished(f, "calculate") /\ f.result = "ok"
            /\ ~f.reserve_inventory /\ Len(f.cart) > 0
            /\ SameStock(f.pre)

\* C26: invariant I1: in every catalog state, also after set_min_price and
\* after the upsert of a product, every product has
\* 0 <= min_price_possible <= base_price.
C26_FloorWithinBase ==
    \A id \in DOMAIN catalog :
        /\ 0 <= catalog[id].min_price_possible
        /\ catalog[id].min_price_possible <= catalog[id].base_price

ExactlyOne(d) == (d.amount = PriceNone) # (d.percentage = PriceNone)

\* C27: constructing a Discount with both amount and percentage, or with
\* neither, fails validation; every Discount that exists has exactly one of
\* the two.
C27_ExactlyOneOfAmountPercentage ==
    \A r \in Reqs :
        /\ call[r].pc = "built" =>
              (call[r].result = "ok" => ExactlyOne(call[r].discount))
        /\ \A n \in DOMAIN call[r]._discounts :
              ExactlyOne(call[r]._discounts[n])

\* A validate_discount_code call in progress or finished.
Validating(f) == f.op = "validate_code" /\ f.pc # "idle"

\* C28: validate_discount_code is read-only: on every outcome the catalog
\* (quantities and prices of all products) and the caller's cart are what
\* they were before the call, and nothing is reserved or released.
C28_ValidateReadOnly ==
    /\ [](\A r \in Reqs :
            Validating(call[r]) =>
                /\ catalog = call[r].pre
                /\ ~call[r].reserved /\ ~call[r].released
                /\ call[r].pc \in {"available", "scan", "done"})
    /\ [][\A r \in Reqs :
            (Validating(call[r]) /\ Validating(call'[r])) =>
                call'[r].cart = call[r].cart /\ catalog' = catalog]_vars

\* The call returned true for a cart with lines, on a catalog that an earlier
\* reservation had changed.
C28_Witness ==
    \E r \in Reqs :
        LET f == call[r]
        IN  /\ Finished(f, "validate_code") /\ f.result = "true"
            /\ Len(f.cart) > 0 /\ Len(strategies) > 0
            /\ catalog # FactoryCatalog /\ catalog = f.pre

C28_WitnessInvalid ==
    \E r \in Reqs :
        LET f == call[r]
        IN  /\ Finished(f, "validate_code")
            /\ f.result = "InvalidDiscountCode"
            /\ catalog # FactoryCatalog /\ catalog = f.pre

C28_WitnessNotFound ==
    \E r \in Reqs :
        LET f == call[r]
        IN  /\ Finished(f, "validate_code")
            /\ f.result = "ProductNotFound"
            /\ catalog # FactoryCatalog /\ catalog = f.pre

\* C29: validate_discount_code re-validates stock before it checks any
\* strategy: it does not return true for a cart with a line that asks more
\* than the catalog holds of its product, and it fails with ProductNotFound
\* when a line's product id is not in the catalog.
C29_StockRevalidated ==
    \A r \in Reqs :
        LET f == call[r]
        IN  Finished(f, "validate_code") =>
                /\ (\E n \in 1..Len(f.cart) : Short(f.pre, f.cart[n])) =>
                       f.result # "true"
                /\ (\E n \in 1..Len(f.cart) : ~Known(f.pre, f.cart[n])) =>
                       f.result = "ProductNotFound"

\* Some registered strategy's eligibility check is false for line n.
Ineligible(f, n) ==
    \E k \in 1..Len(strategies) :
        ~validate_discount_code(strategies[k], f.cart[n].product, f.customer,
                                NoPayment, f.code)

\* C30: when validate_discount_code fails with InvalidDiscountCode, the
\* product it names is that of the first cart line for which some registered
\* strategy's eligibility check is false; one ineligible strategy of any kind
\* is enough, and the call returns true only when no line has one.
C30_FirstIneligibleNamed ==
    \A r \in Reqs :
        LET f == call[r]
        IN  Finished(f, "validate_code") =>
                /\ f.result = "InvalidDiscountCode" =>
                      \E n \in 1..Len(f.cart) :
                          /\ Ineligible(f, n)
                          /\ \A m \in 1..(n - 1) : ~Ineligible(f, m)
                          /\ f.named = f.cart[n].product.id
                /\ f.result = "true" =>
                      \A n \in 1..Len(f.cart) : ~Ineligible(f, n)
                /\ (f.result # "ProductNotFound"
                      /\ \E n \in 1..Len(f.cart) : Ineligible(f, n)) =>
                      f.result = "InvalidDiscountCode"

\* No Coupon strategy is registered; the first line is eligible, the second
\* is not and it is the one named.
C30_Witness ==
    \E r \in Reqs :
        LET f == call[r]
        IN  /\ Finished(f, "validate_code")
            /\ f.result = "InvalidDiscountCode"
            /\ ~Registered("Coupon") /\ ~Registered("Payment")
            /\ Len(f.cart) = 2
            /\ ~Ineligible(f, 1) /\ Ineligible(f, 2)
            /\ f.cart[1].product.id # f.cart[2].product.id
            /\ f.named = f.cart[2].product.id

\* Two lines are ineligible, each by a different strategy, and the first is
\* named.
C30_WitnessTwoBad ==
    \E r \in Reqs :
        LET f == call[r]
        IN  /\ Finished(f, "validate_code")
            /\ f.result = "InvalidDiscountCode"
            /\ Len(f.cart) = 2
            /\ Ineligible(f, 1) /\ Ineligible(f, 2)
            /\ f.cart[1].product.id = "2" /\ f.cart[2].product.id = "3"
            /\ f.named = "2"

\* C31: in the pipeline the factory builds, on every cart line the coupon
\* strategy is applied to the running price before the payment strategy.
C31_CouponBeforePayment ==
    /\ \A j, k \in 1..Len(strategies) :
          (strategies[j] = "Coupon" /\ strategies[k] = "Payment") => j < k
    /\ \A r \in Reqs : \A j, k \in 1..Len(call[r].trail) :
          LET a == call[r].trail[j]
              b == call[r].trail[k]
          IN  (call[r].op = "calculate" /\ a.line = b.line
                 /\ a.kind = "Payment" /\ b.kind = "Coupon") => k < j

RECURSIVE StartTotal(_)
StartTotal(units) ==
    IF units = <<>> THEN 0
    ELSE Head(units).start * Head(units).quantity + StartTotal(Tail(units))

\* C32: no strategy application raises the running price: whatever the
\* product's current_price and min_price_possible, the price after
\* apply_discounts is at most the price before it, so final_price is at most
\* the sum over the lines of the catalog current_price times the quantity.
C32_NeverRaisesPrice ==
    \A r \in Reqs :
        LET f == call[r]
        IN  /\ \A k \in 1..Len(f.trail) :
                  f.trail[k].raised = "none" =>
                      f.trail[k].after <= f.trail[k].before
            /\ (Finished(f, "calculate") /\ f.result = "ok") =>
                  f.final_price <= StartTotal(f.units)

OtherLabels ==
    {[brand |-> "NIKE", category |-> "SHOES"],
     [brand |-> "ZARA", category |-> "SHOES"],
     [brand |-> "NIKE", category |-> "Shoes"]}

\* The cart with the brand and category of every snapshot replaced by v's.
Relabel(cart_items, v) ==
    [n \in 1..Len(cart_items) |->
        [cart_items[n] EXCEPT !.product.brand = v.brand,
                              !.product.category = v.category]]

\* The pricing of f's call run again, on the same catalog, chain, customer,
\* payment and code, with the cart relabelled by v.
RequoteLabels(f, v) ==
    Priced(EnterLines([f EXCEPT !.cart = Relabel(f.cart, v), !.i = 0,
                                !.final_price = 0,
                                !.applied_discounts = EmptyMap,
                                !.trail = <<>>, !.units = <<>>]))

\* C34: eligibility does not depend on the caller's snapshots: two calls on
\* the same catalog, customer, payment and code, whose carts have the same
\* product ids and quantities and differ in the snapshots' brand or category,
\* return the same final_price.
C34_SnapshotLabelsIgnored ==
    \A r \in Reqs :
        LET f == call[r]
        IN  (Finished(f, "calculate") /\ f.result = "ok") =>
                \A v \in OtherLabels : \A g \in {RequoteLabels(f, v)} :
                    g.result = "ok" => g.final_price = f.final_price

\* The pricing of f's call run a second time with the same arguments, on the
\* catalog as the first call left it.
Again(f) ==
    Priced(EnterLines([f EXCEPT !.i = 0, !.final_price = 0,
                                !.applied_discounts = EmptyMap,
                                !.trail = <<>>, !.units = <<>>]))

\* C35: pricing is repeatable: a second calculate_cart_discounts with
\* reserve_inventory false and the same arguments returns the same
\* original_price, final_price and ledger, and every cart line, also a second
\* line of the same product, is priced from the catalog's current_price, not
\* from a price discounted for an earlier line or call.
C35_PricingRepeatable ==
    \A r \in Reqs :
        LET f == call[r]
        IN  (Finished(f, "calculate") /\ f.result = "ok"
               /\ ~f.reserve_inventory) =>
                /\ catalog = f.pre
                /\ \A g \in {Again(f)} :
                      /\ g.result = "ok"
                      /\ g.original_price = f.original_price
                      /\ g.final_price = f.final_price
                      /\ g.applied_discounts = f.applied_discounts
                /\ \A n \in 1..Len(f.units) :
                      f.units[n].start = f.pre[f.units[n].id].current_price

\* Two lines of the same product were both discounted from the catalog price.
C35_Witness ==
    \E r \in Reqs :
        LET f == call[r]
        IN  /\ Finished(f, "calculate") /\ f.result = "ok"
            /\ ~f.reserve_inventory
            /\ Len(f.units) = 2
            /\ f.units[1].id = f.units[2].id
            /\ f.units[1].price < f.units[1].start
            /\ f.units[2].price < f.units[2].start
            /\ f.units[2].start = catalog[f.units[2].id].current_price
            /\ Again(f).final_price = f.final_price

\* C36: whatever string is passed as code, the Coupon strategy either applies
\* a percentage discount or reports not applicable: no code makes
\* apply_discounts, and so calculate_cart_discounts, fail.
C36_CouponNeverFails ==
    \A r \in Reqs :
        LET f == call[r]
        IN  /\ \A k \in 1..Len(f.trail) :
                  f.trail[k].kind = "Coupon" => f.trail[k].raised = "none"
            /\ (f.op = "calculate" /\ f.pc = "done") => f.result # "TypeError"

====
